---- MODULE Spec2Model ----
(***************************************************************************)
(* A model of kronecker.py: the Kronecker matrix-vector product            *)
(* (kron, kron_list, kron_mvp), the conjugate-gradient solver              *)
(* (CGOptimizer) and the Newton loop of KroneckerSolver.run with its       *)
(* backtracking line search.                                               *)
(*                                                                         *)
(* Numbers.  A tensor entry is an extended rational <<n, d>>: d > 0 is the *)
(* fraction n/d in lowest terms, <<1,0>> is +inf, <<-1,0>> is -inf and     *)
(* <<0,0>> is NaN, with the IEEE rules for inf and NaN the float32 tensors *)
(* of the program follow (inf - inf = NaN, 0 * inf = NaN, x/0 = +-inf,     *)
(* every comparison with NaN false).  Finite arithmetic is exact: float32  *)
(* rounding is not modelled.                                               *)
(*                                                                         *)
(* Tensors.  A vector is a sequence of numbers; a matrix is a record       *)
(* [r, c, d] holding its shape and its entries in row-major order, the     *)
(* order tf.reshape keeps.                                                 *)
(***************************************************************************)
EXTENDS Integers, Sequences, FiniteSets, TLC

----------------------------------------------------------------------------
(* Extended rational arithmetic *)

Abs(n) == IF n < 0 THEN -n ELSE n

Sign(n) == IF n > 0 THEN 1 ELSE IF n < 0 THEN -1 ELSE 0

RECURSIVE Gcd(_, _)
Gcd(a, b) == IF b = 0 THEN a ELSE Gcd(b, a % b)

Norm(n, d) == LET g == Gcd(Abs(n), d) IN <<n \div g, d \div g>>

Q(n) == <<n, 1>>
Zero == <<0, 1>>
One == <<1, 1>>
Half == <<1, 2>>
NaN == <<0, 0>>
PosInf == <<1, 0>>
NegInf == <<-1, 0>>

IsNan(a) == a = NaN
IsFinite(a) == a[2] # 0
SignOf(a) == Sign(a[1])

Neg(a) == <<-a[1], a[2]>>

Add(a, b) ==
  IF IsNan(a) \/ IsNan(b) THEN NaN
  ELSE IF IsFinite(a) /\ IsFinite(b)
       THEN LET g == Gcd(a[2], b[2])
            IN  Norm(a[1] * (b[2] \div g) + b[1] * (a[2] \div g),
                     (a[2] \div g) * b[2])
  ELSE IF ~IsFinite(a) /\ ~IsFinite(b) THEN (IF a = b THEN a ELSE NaN)
  ELSE IF ~IsFinite(a) THEN a ELSE b

Sub(a, b) == Add(a, Neg(b))

Mul(a, b) ==
  IF IsNan(a) \/ IsNan(b) THEN NaN
  ELSE IF IsFinite(a) /\ IsFinite(b)
       THEN IF a[1] = 0 \/ b[1] = 0 THEN Zero
            ELSE LET g1 == Gcd(Abs(a[1]), b[2])
                     g2 == Gcd(Abs(b[1]), a[2])
                 IN  <<(a[1] \div g1) * (b[1] \div g2),
                       (a[2] \div g2) * (b[2] \div g1)>>
  ELSE IF SignOf(a) * SignOf(b) = 0 THEN NaN
  ELSE <<SignOf(a) * SignOf(b), 0>>

Div(a, b) ==
  IF IsNan(a) \/ IsNan(b) THEN NaN
  ELSE IF IsFinite(a) /\ IsFinite(b)
       THEN IF b[1] = 0
            THEN (IF a[1] = 0 THEN NaN ELSE <<SignOf(a), 0>>)
            ELSE Mul(a, <<Sign(b[1]) * b[2], Abs(b[1])>>)
  ELSE IF ~IsFinite(a) /\ ~IsFinite(b) THEN NaN
  ELSE IF IsFinite(a) THEN Zero
  ELSE <<SignOf(a) * (IF SignOf(b) < 0 THEN -1 ELSE 1), 0>>

RECURSIVE LessPos(_, _, _, _)
\* n1/d1 < n2/d2 for n1, n2 >= 0 and d1, d2 > 0, by continued fractions
\* (no product is formed, so none leaves the integer range)
LessPos(n1, d1, n2, d2) ==
  IF n1 \div d1 # n2 \div d2 THEN n1 \div d1 < n2 \div d2
  ELSE IF n2 % d2 = 0 THEN FALSE
  ELSE IF n1 % d1 = 0 THEN TRUE
  ELSE LessPos(d2, n2 % d2, d1, n1 % d1)

\* a < b; false as soon as one side is NaN
Less(a, b) ==
  IF IsNan(a) \/ IsNan(b) THEN FALSE
  ELSE IF IsFinite(a) /\ IsFinite(b)
       THEN IF SignOf(a) # SignOf(b) THEN SignOf(a) < SignOf(b)
            ELSE IF SignOf(a) = 0 THEN FALSE
            ELSE IF SignOf(a) > 0 THEN LessPos(a[1], a[2], b[1], b[2])
            ELSE LessPos(-b[1], b[2], -a[1], a[2])
  ELSE IF a = b THEN FALSE
  ELSE IF ~IsFinite(a) THEN SignOf(a) < 0
  ELSE SignOf(b) > 0

Greater(a, b) == Less(b, a)

ISqrt(n) == CHOOSE k \in 0..n : k * k <= n /\ (k + 1) * (k + 1) > n

\* tf.sqrt; the model's inputs keep every finite argument a perfect square
Sqrt(a) ==
  IF IsNan(a) THEN NaN
  ELSE IF ~IsFinite(a) THEN (IF SignOf(a) > 0 THEN PosInf ELSE NaN)
  ELSE IF a[1] < 0 THEN NaN
  ELSE <<ISqrt(a[1]), ISqrt(a[2])>>

----------------------------------------------------------------------------
(* Vectors (1-D tensors) *)

\* eager execution: a tensor holds its entries, computed once
Eager(u) == u \o <<>>

VAdd(u, w) == Eager([i \in 1..Len(u) |-> Add(u[i], w[i])])
VSub(u, w) == Eager([i \in 1..Len(u) |-> Sub(u[i], w[i])])
VMul(u, w) == Eager([i \in 1..Len(u) |-> Mul(u[i], w[i])])
VScale(s, u) == Eager([i \in 1..Len(u) |-> Mul(s, u[i])])
VSqrt(u) == Eager([i \in 1..Len(u) |-> Sqrt(u[i])])
VRecipSqrt(u) == Eager([i \in 1..Len(u) |-> Div(One, Sqrt(u[i]))])
VNeg(u) == Eager([i \in 1..Len(u) |-> Neg(u[i])])
Zeros(n) == Eager([i \in 1..n |-> Zero])

RECURSIVE ReduceSum(_)
ReduceSum(u) == IF u = <<>> THEN Zero
                ELSE Add(ReduceSum(SubSeq(u, 1, Len(u) - 1)), u[Len(u)])

Dot(u, w) == ReduceSum(VMul(u, w))

----------------------------------------------------------------------------
(* Matrices (2-D tensors) and the operations kron_mvp uses.  A failed      *)
(* operation (a shape TensorFlow rejects) yields ShapeError, which every   *)
(* later operation hands on.                                               *)

ShapeError == [r |-> -1, c |-> -1, d |-> <<>>]
IsError(m) == m.r = -1

Mat(rows, cols, data) == [r |-> rows, c |-> cols, d |-> Eager(data)]
At(m, i, j) == m.d[(i - 1) * m.c + j]

\* tf.expand_dims(v, 1)
ExpandDims(v) == Mat(Len(v), 1, v)

\* tf.reshape(m, [rows, cols]); -1 asks for the size to be inferred
Reshape(m, rows, cols) ==
  IF IsError(m) THEN ShapeError
  ELSE LET n == Len(m.d)
       IN  IF rows = -1
           THEN (IF cols > 0 /\ n % cols = 0
                 THEN Mat(n \div cols, cols, m.d) ELSE ShapeError)
           ELSE IF cols = -1
           THEN (IF rows > 0 /\ n % rows = 0
                 THEN Mat(rows, n \div rows, m.d) ELSE ShapeError)
           ELSE (IF rows * cols = n THEN Mat(rows, cols, m.d) ELSE ShapeError)

\* tf.transpose
Transpose(m) ==
  IF IsError(m) THEN ShapeError
  ELSE Mat(m.c, m.r,
           [k \in 1..(m.r * m.c) |->
              At(m, ((k - 1) % m.r) + 1, ((k - 1) \div m.r) + 1)])

\* tf.matmul
MatMul(a, b) ==
  IF IsError(a) \/ IsError(b) \/ a.c # b.r THEN ShapeError
  ELSE Mat(a.r, b.c,
           [k \in 1..(a.r * b.c) |->
              LET i == ((k - 1) \div b.c) + 1
                  j == ((k - 1) % b.c) + 1
              IN  ReduceSum([l \in 1..a.c |-> Mul(At(a, i, l), At(b, l, j))])])

\* kron(A, B): rows of blocks A[i, j] * B
kron(A, B) ==
  Mat(A.r * B.r, A.c * B.c,
      [k \in 1..(A.r * B.r * A.c * B.c) |->
         LET row == ((k - 1) \div (A.c * B.c)) + 1
             col == ((k - 1) % (A.c * B.c)) + 1
         IN  Mul(At(A, ((row - 1) \div B.r) + 1, ((col - 1) \div B.c) + 1),
                 At(B, ((row - 1) % B.r) + 1, ((col - 1) % B.c) + 1))])

RECURSIVE KronFold(_, _, _)
KronFold(out, matrices, i) ==
  IF i > Len(matrices) THEN out
  ELSE KronFold(kron(out, matrices[i]), matrices, i + 1)

\* kron_list(matrices): left-to-right fold of kron over two or more matrices
kron_list(matrices) == KronFold(kron(matrices[1], matrices[2]), matrices, 3)

RECURSIVE MvpLoop(_, _, _)
\* the loop over reversed(Ks): idx counts from 0, k = Ks[Len(Ks) - idx]
MvpLoop(mvp, Ks, idx) ==
  IF idx >= Len(Ks) THEN mvp
  ELSE LET k == Ks[Len(Ks) - idx]
           m == IF idx > 0 THEN Reshape(mvp, k.r, -1) ELSE mvp
       IN  MvpLoop(Transpose(MatMul(k, m)), Ks, idx + 1)

\* kron_mvp(Ks, v) as a matrix: shape [1, n], or ShapeError
KronMvpMat(Ks, v) ==
  LET mvp0 == Transpose(Reshape(ExpandDims(v), -1, Ks[Len(Ks)].r))
      out  == Transpose(MvpLoop(mvp0, Ks, 0))
  IN  IF IsError(out) THEN ShapeError ELSE Mat(1, Len(out.d), out.d)

\* kron_mvp(Ks, v) where the shapes are known to fit
kron_mvp(Ks, v) == KronMvpMat(Ks, v).d

\* the dense product kron_list(Ks) . v
DenseMvp(Ks, v) == MatMul(kron_list(Ks), ExpandDims(v)).d

----------------------------------------------------------------------------
(* State *)

VARIABLES
  pc,        \* where the running call stands
  kron_in,   \* the arguments [Ks, v] of a kron_mvp call
  kron_out,  \* [mvp, dense]: what kron_mvp and kron_list(Ks) . v returned
  cg_in,     \* the CGOptimizer's cg_prod and the arguments of its cg call
  cg,        \* loop variables [p, count, x, r, max_it] of cg's while_loop
  solver,    \* the fields of the KroneckerSolver instance
  newton,    \* loop variables [max_it, it, prev, delta] of run's while_loop
  psi,       \* step's local psi
  line,      \* loop variables of line_search's while_loop
  evaluated, \* the candidates the running line search evaluated: <<step, obj>>
  log        \* what verbose prints per Newton step: [it, psi, step]

vars == <<pc, kron_in, kron_out, cg_in, cg, solver, newton, psi, line,
          evaluated, log>>

\* Python's None, for an optional vector argument
None == <<>>

NoCall == [unused |-> TRUE]

----------------------------------------------------------------------------
(* kron_mvp against the dense product *)

MaxD == 3
MaxVLen == 12

IntMat(rows, cols, ints) == Mat(rows, cols, [i \in 1..Len(ints) |-> Q(ints[i])])

TestMats ==
  { IntMat(1, 1, <<2>>),
    IntMat(2, 2, <<1, 2, 3, 4>>),
    IntMat(2, 2, <<0, 1, 1, 0>>),
    IntMat(3, 3, <<1, 2, 0, 0, 1, 3, 4, 0, 1>>) }

KsInputs == UNION { [1..d -> TestMats] : d \in 2..MaxD }

\* unit vectors and the ramp 1, 2, ..., n for every length up to MaxVLen
VInputs ==
  UNION { { [i \in 1..n |-> IF i = k THEN One ELSE Zero] : k \in 1..n }
          \cup { [i \in 1..n |-> Q(i)] } : n \in 1..MaxVLen }

RECURSIVE SizeProduct(_)
SizeProduct(Ks) == IF Ks = <<>> THEN 1
                   ELSE Ks[Len(Ks)].r * SizeProduct(SubSeq(Ks, 1, Len(Ks) - 1))

InitKron ==
  /\ pc = "kron_mvp"
  /\ kron_in \in [Ks : KsInputs, v : VInputs]
  /\ kron_out = NoCall
  /\ cg_in = NoCall /\ cg = NoCall /\ solver = NoCall /\ newton = NoCall
  /\ psi = Zero /\ line = NoCall /\ evaluated = <<>> /\ log = <<>>

EngineUnchanged == UNCHANGED <<cg_in, cg, solver, newton, psi, line, evaluated, log>>

\* the call kron_mvp(Ks, v)
CallKronMvp ==
  /\ pc = "kron_mvp"
  /\ kron_out' = [mvp |-> KronMvpMat(kron_in.Ks, kron_in.v)]
  /\ pc' = "kron_dense"
  /\ UNCHANGED kron_in
  /\ EngineUnchanged

\* the reference: kron_list(Ks) . v, formed where the product is defined
CallDense ==
  /\ pc = "kron_dense"
  /\ kron_out' = [mvp |-> kron_out.mvp,
                  dense |-> IF Len(kron_in.v) = SizeProduct(kron_in.Ks)
                            THEN DenseMvp(kron_in.Ks, kron_in.v) ELSE <<>>]
  /\ pc' = "kron_done"
  /\ UNCHANGED kron_in
  /\ EngineUnchanged

NextKron == CallKronMvp \/ CallDense

SpecKron == InitKron /\ [][NextKron]_vars

\* C1: for d = 2 and d = 3 matrices and a vector whose length is the product
\* of their sizes, kron_mvp(Ks, v) equals kron_list(Ks) . v entry by entry.
C1_MvpEqualsDense ==
  (pc = "kron_done" /\ Len(kron_in.v) = SizeProduct(kron_in.Ks))
    => (~IsError(kron_out.mvp) /\ kron_out.mvp.d = kron_out.dense)

\* the same statement for two matrices only (holds)
C1_TwoMatrices ==
  (pc = "kron_done" /\ Len(kron_in.Ks) = 2
     /\ Len(kron_in.v) = SizeProduct(kron_in.Ks))
    => (~IsError(kron_out.mvp) /\ kron_out.mvp.d = kron_out.dense)

\* C2: kron_mvp signals an error whenever the length of v differs from the
\* product of the sizes of the Ks[i]; it never returns a vector then.
C2_LengthMismatchFails ==
  (pc # "kron_mvp" /\ Len(kron_in.v) # SizeProduct(kron_in.Ks))
    => IsError(kron_out.mvp)

----------------------------------------------------------------------------
(* CGOptimizer *)

\* the tolerance 1e-5 of cg_converged, cg_body and conv
Tol == <<1, 100000>>

\* max_it = None in cg's signature
NoneInt == -1

MatVec(M, q) == MatMul(M, ExpandDims(q)).d

\* cg_prod_step(p), with s the solver whose W, Ks, k_diag it reads
cg_prod_step(s, q) ==
  IF s.precondition = None
  THEN VAdd(q, VMul(VSqrt(s.W), kron_mvp(s.Ks, VMul(VSqrt(s.W), q))))
  ELSE LET Cp     == VMul(s.precondition, q)
           first  == VMul(s.precondition, Cp)
           second == VMul(VMul(s.precondition, VMul(s.W, s.k_diag)), Cp)
           third  == VMul(VMul(s.precondition, VSqrt(s.W)),
                          kron_mvp(s.Ks, VMul(VSqrt(s.W), Cp)))
       IN  VAdd(VAdd(first, second), third)

\* self.cg_prod: the callback the optimizer was constructed with
cg_prod(ci, s, q) ==
  IF ci.prod = "cg_prod_step" THEN cg_prod_step(s, q) ELSE MatVec(ci.A, q)

\* a faulty cg_converged that ignores the iteration cap
cg_converged_nocap(c) == Greater(Dot(c.r, c.r), Tol)

\* cg_converged: TRUE while the loop goes on
cg_converged(c) == Greater(Dot(c.r, c.r), Tol) /\ c.count < c.max_it

\* cg_body: one iteration
cg_body(c, ci, s) ==
  LET Bp     == cg_prod(ci, s, c.p)
      norm_k == Dot(c.r, c.r)
      a      == Div(norm_k, Dot(c.p, Bp))
      x2     == VAdd(c.x, VScale(a, c.p))
      r2     == VSub(c.r, VScale(a, Bp))
      next   == Dot(r2, r2)
      beta   == Div(next, norm_k)
  IN  IF Less(next, Tol)
      THEN [p |-> c.p, count |-> c.count + 1, x |-> x2, r |-> r2,
            max_it |-> c.max_it]
      ELSE [p |-> VAdd(r2, VScale(beta, c.p)), count |-> c.count + 1,
            x |-> x2, r |-> r2, max_it |-> c.max_it]

\* cg(b, x=None, max_it) up to its while_loop: the initial loop variables
cg_start(rhs, max_it, ci, s) ==
  LET n  == Len(rhs)
      x0 == Zeros(n)
      r0 == VSub(rhs, cg_prod(ci, s, x0))
  IN  [p |-> r0, count |-> 0, x |-> x0, r |-> r0,
       max_it |-> IF max_it = NoneInt THEN 2 * n ELSE max_it]

----------------------------------------------------------------------------
(* A CGOptimizer over an explicit matrix: cg_prod(p) = A . p *)

MaxCgIt == 3

IntVec(ints) == [i \in 1..Len(ints) |-> Q(ints[i])]

CgMatrices ==
  { IntMat(2, 2, <<1, 0, 0, 1>>),
    IntMat(2, 2, <<2, 1, 1, 2>>),
    IntMat(2, 2, <<4, 1, 1, 3>>),
    IntMat(2, 2, <<0, 0, 0, 0>>),
    IntMat(2, 2, <<0, 1, 1, 0>>),
    IntMat(2, 2, <<1, 0, 0, -1>>),
    IntMat(2, 2, <<-1, 1, -1, -1>>) }

CgRhs == { IntVec(<<a, c>>) : a \in {-1, 0, 1, 2}, c \in {-1, 0, 1, 2} }
           \cup { <<<<1, 1000>>, <<0, 1>>>> }

\* a call cg(b, max_it = m) with x left at its default None, as step calls it
InitCG ==
  /\ pc = "cg"
  /\ \E A \in CgMatrices, rhs \in CgRhs, m \in {NoneInt} \cup 0..MaxCgIt :
       /\ cg_in = [prod |-> "matrix", A |-> A, b |-> rhs, max_it |-> m]
       /\ cg = cg_start(rhs, m, cg_in, NoCall)
  /\ kron_in = NoCall /\ kron_out = NoCall
  /\ solver = NoCall /\ newton = NoCall
  /\ psi = Zero /\ line = NoCall /\ evaluated = <<>> /\ log = <<>>

\* one pass of cg's while_loop: cg_converged holds, cg_body runs
CgBody ==
  /\ pc = "cg"
  /\ cg_converged(cg)
  /\ cg' = cg_body(cg, cg_in, solver)
  /\ UNCHANGED <<pc, kron_in, kron_out, cg_in, solver, newton, psi, line,
                 evaluated, log>>

\* the while_loop ends and cg returns fin[2], the x it holds
CgReturn ==
  /\ pc = "cg"
  /\ ~cg_converged(cg)
  /\ pc' = "cg_done"
  /\ UNCHANGED <<kron_in, kron_out, cg_in, cg, solver, newton, psi, line,
                 evaluated, log>>

NextCG == CgBody \/ CgReturn

SpecCG == InitCG /\ [][NextCG]_vars

\* the cap of the running cg call: max_it, or 2n when max_it is None
CgCap == IF cg_in.max_it = NoneInt THEN 2 * Len(cg_in.b) ELSE cg_in.max_it

\* r . r of the loop's current residual is above 1e-5
ResidualAbove == Greater(Dot(cg.r, cg.r), Tol)

\* the initial residual b - A . x0 with x0 = 0
InitialResidual == VSub(cg_in.b, MatVec(cg_in.A, Zeros(Len(cg_in.b))))

----------------------------------------------------------------------------
(* KroneckerSolver *)

\* sys.float_info.max, which exceeds the float32 range of the tensors it is
\* combined with: the float32 value is +inf
FloatMax == PosInf

\* the value line 170 puts in place of a NaN entry of alpha
NanFill == <<1, 1000000000>>

\* the max_it step passes to line_search
LineMaxIt == 20

\* the Likelihood collaborator, elementwise in y - f: "gauss" is the unit
\* normal, "split" the two-piece normal with precision 1 below y and 4 above
log_like(lik, y, f) ==
  Eager([i \in 1..Len(y) |->
     LET e == Sub(y[i], f[i])
     IN  IF lik = "gauss" \/ ~Less(e, Zero)
         THEN Mul(<<-1, 2>>, Mul(e, e)) ELSE Mul(Q(-2), Mul(e, e))])

\* grad_func = gradients_function(log_like, [1]): d log_like / d f
grad_func(lik, y, f) ==
  Eager([i \in 1..Len(y) |->
     LET e == Sub(y[i], f[i])
     IN  IF lik = "gauss" \/ ~Less(e, Zero) THEN e ELSE Mul(Q(4), e)])

\* hess_func = gradients_function(grad_func, [1]): d^2 log_like / d f^2
hess_func(lik, y, f) ==
  Eager([i \in 1..Len(y) |->
     LET e == Sub(y[i], f[i])
     IN  IF lik = "gauss" \/ ~Less(e, Zero) THEN Q(-1) ELSE Q(-4)])

\* tf.boolean_mask(u, mask)
RECURSIVE boolean_mask(_, _)
boolean_mask(u, mask) ==
  IF u = <<>> THEN <<>>
  ELSE LET rest == boolean_mask(SubSeq(u, 1, Len(u) - 1),
                                SubSeq(mask, 1, Len(mask) - 1))
       IN  IF mask[Len(u)] THEN Append(rest, u[Len(u)]) ELSE rest

\* tf.clip_by_value(a, 0, 1)
Clip01(a) == IF IsNan(a) THEN NaN
             ELSE IF Less(a, Zero) THEN Zero
             ELSE IF Less(One, a) THEN One ELSE a

\* __init__: precondition = clip(1/sqrt(k_diag), 0, 1), or None
make_precondition(k_diag) ==
  IF k_diag = None THEN None
  ELSE Eager([i \in 1..Len(k_diag) |-> Clip01(Div(One, Sqrt(k_diag[i])))])

\* eval_obj(f, alpha): -sum(log_like) + 0.5 * sum(alpha * (f - mu)),
\* over the masked entries when a mask is set
eval_obj(s, f, alpha) ==
  IF s.mask # None
  THEN LET y_lim     == boolean_mask(s.y, s.mask)
           f_lim     == boolean_mask(f, s.mask)
           alpha_lim == boolean_mask(alpha, s.mask)
           mu_lim    == boolean_mask(s.mu, s.mask)
       IN  Add(Neg(ReduceSum(log_like(s.lik, y_lim, f_lim))),
               Mul(Half, ReduceSum(VMul(alpha_lim, VSub(f_lim, mu_lim)))))
  ELSE Add(Neg(ReduceSum(log_like(s.lik, s.y, f))),
           Mul(Half, ReduceSum(VMul(alpha, VSub(f, s.mu)))))

\* a faulty conv that ignores the iteration cap
conv_nocap(nw) == Greater(nw.delta, Tol)

\* conv: TRUE while run's loop goes on
conv(nw) == nw.it < nw.max_it /\ Greater(nw.delta, Tol)

\* a faulty converge_line with the comparison turned round
converge_line_flipped(ls) ==
  ls.t < ls.max_it
    /\ ~Less(Sub(ls.obj_prev, ls.obj_search), Mul(ls.step_size, Q(ls.t)))

\* converge_line: TRUE while the line search goes on
converge_line(ls) ==
  ls.t < ls.max_it
    /\ Less(Sub(ls.obj_prev, ls.obj_search), Mul(ls.step_size, Q(ls.t)))

\* step, lines 142-145: f from alpha
step_f(s) ==
  LET f0 == VAdd(kron_mvp(s.Ks, s.alpha), s.mu)
  IN  IF s.k_diag # None THEN VAdd(f0, VMul(s.alpha, s.k_diag)) ELSE f0

\* step, lines 147-149: the solver with f, grads and W of this step
step_derivatives(s) ==
  LET f1 == step_f(s)
  IN  [s EXCEPT !.f = f1,
                !.grads = grad_func(s.lik, s.y, f1),
                !.W = VNeg(hess_func(s.lik, s.y, f1))]

\* step, lines 150-156: the right-hand side handed to step_opt.cg
step_rhs(s) ==
  LET b == VAdd(VMul(s.W, VSub(s.f, s.mu)), s.grads)
  IN  IF s.precondition # None
      THEN VMul(s.precondition, VMul(VRecipSqrt(s.W), b))
      ELSE VMul(VRecipSqrt(s.W), b)

\* line_search, lines 197-201: the initial loop variables
line_start(delta_alpha, obj_prev, max_it) ==
  [obj_prev |-> obj_prev, obj_search |-> FloatMax, min_obj |-> obj_prev,
   delta_alpha |-> delta_alpha, step_size |-> Q(2), max_it |-> max_it,
   t |-> 1, opt_step |-> Zero]

\* search_step, lines 224-228: the candidate's f
search_f(s, alpha_search) ==
  LET f0 == VAdd(kron_mvp(s.Ks, alpha_search), s.mu)
  IN  IF s.mask # None THEN VAdd(f0, VMul(s.k_diag, alpha_search)) ELSE f0

\* a faulty search_step that keeps every candidate below obj_prev, not only
\* one below the least objective so far
search_step_anybelow(s, ls) ==
  LET alpha_search == VAdd(s.alpha, VScale(ls.step_size, ls.delta_alpha))
      obj          == eval_obj(s, search_f(s, alpha_search), alpha_search)
      better       == Greater(ls.obj_prev, obj)
  IN  [ls EXCEPT !.obj_search = obj,
                 !.opt_step = IF better THEN ls.step_size ELSE ls.opt_step,
                 !.min_obj = IF better THEN obj ELSE ls.min_obj,
                 !.step_size = Mul(s.tau, ls.step_size),
                 !.t = ls.t + 1]

\* search_step: one candidate of the backtracking line search
search_step(s, ls) ==
  LET alpha_search == VAdd(s.alpha, VScale(ls.step_size, ls.delta_alpha))
      obj          == eval_obj(s, search_f(s, alpha_search), alpha_search)
      better       == Greater(ls.min_obj, obj)
  IN  [ls EXCEPT !.obj_search = obj,
                 !.opt_step = IF better THEN ls.step_size ELSE ls.opt_step,
                 !.min_obj = IF better THEN obj ELSE ls.min_obj,
                 !.step_size = Mul(s.tau, ls.step_size),
                 !.t = ls.t + 1]

\* a faulty update that takes the full Newton step whatever line_search
\* returned
update_alpha_fullstep(alpha, delta_alpha, step_size) ==
  LET a == VAdd(alpha, delta_alpha)
  IN  Eager([i \in 1..Len(a) |-> IF IsNan(a[i]) THEN NanFill ELSE a[i]])

\* step, lines 169-170: the update of alpha and the NaN clamp
update_alpha(alpha, delta_alpha, step_size) ==
  LET a == VAdd(alpha, VScale(step_size, delta_alpha))
  IN  Eager([i \in 1..Len(a) |-> IF IsNan(a[i]) THEN NanFill ELSE a[i]])

----------------------------------------------------------------------------
(* run: the Newton loop *)

MaxNewtonIt == 3

\* the max_it KernelLearner.get_marginal passes to run
MarginalIt == 10

Identity2 == IntMat(2, 2, <<1, 0, 0, 1>>)

\* Ks as construct_Ks builds it for a 1 x 2 and a 2 x 1 grid
KsChoices ==
  { <<IntMat(1, 1, <<1>>), Identity2>>,
    <<IntMat(2, 2, <<3, 1, 1, 3>>), IntMat(1, 1, <<1>>)>> }

YChoices == { IntVec(<<0, 0>>), IntVec(<<2, 2>>), IntVec(<<4, -2>>),
              IntVec(<<-2, 4>>), IntVec(<<-4, -4>>) }

MaskChoices == { <<TRUE, TRUE>>, <<TRUE, FALSE>>, <<FALSE, TRUE>> }

\* the engine configurations: every combination is one whose exact values
\* stay within TLC's integers through all 19 line-search candidates
SolverInputs ==
  [lik : {"gauss"}, Ks : KsChoices, y : YChoices, mu : {Zeros(2)},
   k_diag : {None, IntVec(<<1, 1>>), IntVec(<<4, 1>>)}, mask : {None}]
  \cup
  [lik : {"gauss"}, Ks : KsChoices, y : YChoices, mu : {Zeros(2)},
   k_diag : {None, IntVec(<<1, 1>>)}, mask : MaskChoices]
  \cup
  [lik : {"split"}, Ks : {<<IntMat(1, 1, <<1>>), Identity2>>},
   y : {IntVec(<<2, 2>>), IntVec(<<0, 4>>)}, mu : {Zeros(2)},
   k_diag : {IntVec(<<1, 1>>)}, mask : {None}]
  \cup
  [lik : {"gauss"}, Ks : {<<IntMat(1, 1, <<1>>), Identity2>>},
   y : {IntVec(<<0, 2>>)}, mu : {Zeros(2)},
   k_diag : {IntVec(<<1, 1>>), IntVec(<<4, 1>>)}, mask : {<<TRUE, FALSE>>}]

\* __init__
new_solver(in) ==
  [lik |-> in.lik, Ks |-> in.Ks, y |-> in.y, mu |-> in.mu,
   k_diag |-> in.k_diag, mask |-> in.mask, tau |-> Half,
   precondition |-> make_precondition(in.k_diag),
   alpha |-> Zeros(Len(in.y)), W |-> Zeros(Len(in.y)),
   grads |-> Zeros(Len(in.y)), f |-> in.mu]

Init ==
  /\ pc = "run"
  /\ \E in \in SolverInputs : solver = new_solver(in)
  /\ newton \in [max_it : (0..MaxNewtonIt) \cup {MarginalIt}]
  /\ kron_in = NoCall /\ kron_out = NoCall
  /\ cg_in = NoCall /\ cg = NoCall
  /\ psi = Zero /\ line = NoCall /\ evaluated = <<>> /\ log = <<>>

\* run, lines 118-120: the loop variables before the while_loop
Run ==
  /\ pc = "run"
  /\ newton' = [max_it |-> newton.max_it, it |-> 0, prev |-> FloatMax,
                delta |-> FloatMax]
  /\ pc' = "conv"
  /\ UNCHANGED <<kron_in, kron_out, cg_in, cg, solver, psi, line, evaluated,
                 log>>

\* step, lines 142-156, up to the while_loop of step_opt.cg
Step ==
  /\ pc = "conv"
  /\ conv(newton)
  /\ LET s1  == step_derivatives(solver)
         rhs == step_rhs(s1)
         ci  == [prod |-> "cg_prod_step", b |-> rhs, max_it |-> NoneInt]
     IN  /\ solver' = s1
         /\ psi' = eval_obj(s1, s1.f, s1.alpha)
         /\ cg_in' = ci
         /\ cg' = cg_start(rhs, NoneInt, ci, s1)
  /\ pc' = "cg"
  /\ UNCHANGED <<kron_in, kron_out, newton, line, evaluated, log>>

\* step, lines 157-159: cg returned z; line_search starts
StepSolved ==
  /\ pc = "cg"
  /\ ~cg_converged(cg)
  /\ line' = line_start(VSub(VMul(VSqrt(solver.W), cg.x), solver.alpha),
                        psi, LineMaxIt)
  /\ evaluated' = <<>>
  /\ pc' = "line"
  /\ UNCHANGED <<kron_in, kron_out, cg_in, cg, solver, newton, psi, log>>

\* one pass of line_search's while_loop; tf.multiply(self.k_diag, ...) at
\* line 228 raises when a mask is set and k_diag is None
SearchStep ==
  /\ pc = "line"
  /\ converge_line(line)
  /\ IF solver.mask # None /\ solver.k_diag = None
     THEN /\ pc' = "failed"
          /\ UNCHANGED <<line, evaluated>>
     ELSE /\ line' = search_step(solver, line)
          /\ evaluated' = Append(evaluated, <<line.step_size, line'.obj_search>>)
          /\ pc' = "line"
  /\ UNCHANGED <<kron_in, kron_out, cg_in, cg, solver, newton, psi, log>>

\* step, lines 159-174: line_search returned; alpha, prev, delta, it
StepDone ==
  /\ pc = "line"
  /\ ~converge_line(line)
  /\ solver' = [solver EXCEPT
                  !.alpha = update_alpha(solver.alpha, line.delta_alpha,
                                         line.opt_step)]
  /\ newton' = [newton EXCEPT !.delta = Sub(newton.prev, psi),
                              !.prev = psi,
                              !.it = newton.it + 1]
  /\ log' = Append(log, [it |-> newton.it, psi |-> psi, step |-> line.opt_step])
  /\ pc' = "conv"
  /\ UNCHANGED <<kron_in, kron_out, cg_in, cg, psi, line, evaluated>>

\* run, lines 123-127: after the loop; tf.multiply(self.alpha, self.k_diag)
\* at line 124 raises when k_diag is None
RunReturn ==
  /\ pc = "conv"
  /\ ~conv(newton)
  /\ LET f1 == VAdd(kron_mvp(solver.Ks, solver.alpha), solver.mu)
     IN  IF solver.k_diag = None
         THEN /\ solver' = [solver EXCEPT !.f = f1]
              /\ pc' = "failed"
         ELSE /\ solver' = [solver EXCEPT
                              !.f = f1,
                              !.grads = grad_func(solver.lik, solver.y,
                                          VAdd(f1, VMul(solver.alpha,
                                                        solver.k_diag)))]
              /\ pc' = "done"
  /\ UNCHANGED <<kron_in, kron_out, cg_in, cg, newton, psi, line, evaluated,
                 log>>

Next == Run \/ Step \/ CgBody \/ StepSolved \/ SearchStep \/ StepDone
          \/ RunReturn

Spec == Init /\ [][Next]_vars

\* run has not returned and has not raised
Running == pc \notin {"done", "failed"}

\* run is one sequential call: it keeps executing until it returns or raises.
\* This is weak fairness of Next, WF_vars(Next), written out: every action
\* changes vars, and Next is enabled exactly while Running holds.
FairSpec == Spec /\ ([]<>~Running \/ []<><<Next>>_vars)

----------------------------------------------------------------------------
(* Properties of the line search *)

\* line_search has returned to step: the state StepDone leaves
Returned == pc \in {"conv", "done", "failed"} /\ log # <<>>

\* the candidates the last line search evaluated with an objective below obj
Below(obj) == { i \in 1..Len(evaluated) : Less(evaluated[i][2], obj) }

\* C4: the step line_search returns is 0.0 or the step size of an evaluated
\* candidate whose objective is strictly below psi_before_step and least
\* among the evaluated candidates; it is 0.0 exactly when no evaluated
\* candidate had an objective below psi_before_step.
C4_ReturnedStep ==
  Returned =>
    LET last == log[Len(log)]
    IN  /\ (last.step = Zero) <=> (Below(last.psi) = {})
        /\ last.step # Zero =>
             \E i \in Below(last.psi) :
               /\ evaluated[i][1] = last.step
               /\ Below(evaluated[i][2]) = {}

\* a line search returned a step that is not the last candidate it evaluated
C4_EarlierCandidateReturned ==
  /\ Returned
  /\ Len(evaluated) >= 2
  /\ log[Len(log)].step # Zero
  /\ log[Len(log)].step # evaluated[Len(evaluated)][1]

\* obj_prev - obj_search is below step_size * t, on the loop's variables
DecreaseBelow ==
  Less(Sub(line.obj_prev, line.obj_search), Mul(line.step_size, Q(line.t)))

\* C5 as stated: the line search terminates exactly when t >= max_it or
\* (obj_prev - obj_search) < step_size * t, and continues otherwise.
C5_StopsWhenDecreaseBelow ==
  [][pc = "line" =>
       ((pc' = "conv") <=> (line.t >= line.max_it \/ DecreaseBelow))]_vars

\* C5, amended: the line search terminates exactly when t >= max_it or
\* (obj_prev - obj_search) is not below step_size * t, and continues (evaluates
\* a further candidate) while t < max_it and the decrease is below
\* step_size * t; before the first candidate obj_search is the largest float.
C5_StopsWhenDecreaseNotBelow ==
  [][pc = "line" =>
       ((pc' = "conv") <=> (line.t >= line.max_it \/ ~DecreaseBelow))]_vars

\* a line search returned before t reached max_it, after some candidate
C5_ReturnedEarly ==
  Returned /\ evaluated # <<>> /\ line.t < line.max_it

----------------------------------------------------------------------------
(* Properties of run *)

\* C6: run has no failure outcome, whatever k_diag and mask are: the loop,
\* its line search and the update of f and grads after the loop complete.
C6_RunNeverFails == pc # "failed"

\* C7: run terminates; a Newton step runs only while delta > 1e-5 and
\* it < max_it, so at most max_it steps run; a line search evaluates at most
\* 20 candidates and a CG solve runs at most 2n iterations.
C7_RunTerminates ==
  /\ <>(pc \in {"done", "failed"})
  /\ [][(pc = "conv" /\ pc' = "cg") =>
          (Greater(newton.delta, Tol) /\ newton.it < newton.max_it)]_vars
  /\ [](pc # "run" => (newton.it <= newton.max_it /\ Len(log) = newton.it))
  /\ [](Len(evaluated) <= LineMaxIt)
  /\ [](cg # NoCall => cg.count <= 2 * Len(cg_in.b))

\* run returned after as many Newton steps as max_it allows, the last of
\* them with a line search that ran to its cap
C7_AllStepsUsed ==
  /\ pc = "done" /\ newton.max_it >= 2 /\ newton.it = newton.max_it
  /\ Greater(newton.delta, Tol)
  /\ Len(evaluated) = LineMaxIt - 1

\* f of alpha by the rule of step: kron_mvp(Ks, alpha) + mu, plus
\* k_diag * alpha when k_diag is present
RuleF(alpha) == step_f([solver EXCEPT !.alpha = alpha])

\* C8: f follows from alpha by one rule everywhere: the objective of every
\* line-search candidate is the objective at the rule's f of that candidate,
\* and the f stored when run returns is the rule's f of the stored alpha.
C8_OneRuleForF ==
  /\ (pc = "line" /\ evaluated # <<>>) =>
       LET cand         == evaluated[Len(evaluated)]
           alpha_search == VAdd(solver.alpha, VScale(cand[1], line.delta_alpha))
       IN  cand[2] = eval_obj(solver, RuleF(alpha_search), alpha_search)
  /\ pc = "done" => solver.f = RuleF(solver.alpha)

NoNanAtZeroStep ==
  \A i \in 1..Len(solver.alpha) :
    ~IsNan(Add(solver.alpha[i], Mul(Zero, line.delta_alpha[i])))

\* C10: a Newton step whose line search returns 0.0 (alpha holding no NaN)
\* leaves alpha unchanged, and at most one further step runs: that step
\* evaluates the same objective, so its delta is 0 and the loop stops.
C10_ZeroStepStops ==
  /\ [][(pc = "line" /\ pc' = "conv" /\ line.opt_step = Zero
           /\ NoNanAtZeroStep)
          => solver'.alpha = solver.alpha]_vars
  /\ [](\A i \in 1..Len(log) :
          log[i].step = Zero =>
            /\ Len(log) <= i + 1
            /\ Len(log) = i + 1 =>
                 /\ log[i + 1].psi = log[i].psi
                 /\ pc = "conv" => (newton.delta = Zero /\ ~conv(newton)))

\* the one further step after a zero step has run and the loop has stopped
C10_OneFurtherStep ==
  /\ pc = "done" /\ Len(log) >= 2 /\ newton.it < newton.max_it
  /\ log[Len(log) - 1].step = Zero
  /\ line.delta_alpha # Zeros(Len(solver.alpha))

====
